---- MODULE Spec2Model ----
(***************************************************************************)
(* A model of filedatasource: the DataFile / DataReader / DataWriter       *)
(* contracts (datafile.py), the CSV reader and writer (csvfile.py) and the *)
(* spreadsheet reader and writer for the two engines (excel.py).           *)
(*                                                                         *)
(* One file lives on the disk; its format (ext) is chosen at the start.    *)
(* A writer session or a reader session (a `with` block) works on it, one  *)
(* at a time, as the library supports.                                     *)
(* That is the specification Spec.  The specification Builder has the     *)
(* functions of builder.py (open_reader, open_writer, load, convert,       *)
(* equals) work on a directory of files, each call as one step.            *)
(* The specification Workbook has reader and writer sessions, each as one *)
(* step, work on a spreadsheet file of several sheets.                     *)
(*                                                                         *)
(* A Python dict is a sequence of <<key, value>> pairs (insertion order),  *)
(* a list is a sequence, a cell value is a record [type, num, text].       *)
(* An operation's outcome is a record [exc, val, obj]: the exception it    *)
(* raised ("none" when it returned), the value returned, the object after. *)
(***************************************************************************)
EXTENDS Integers, Sequences, FiniteSets, TLC

\* Bounds of the model.
MaxRows == 2
MaxCols == 2

-----------------------------------------------------------------------------
\* Values.

None == [type |-> "none", num |-> 0, text |-> ""]
IntV(n) == [type |-> "int", num |-> n, text |-> ToString(n)]
FloatV(n) == [type |-> "float", num |-> n, text |-> ToString(n) \o ".0"]
StrV(s) == [type |-> "str", num |-> 0, text |-> s]

IsNumber(v) == v.type \in {"int", "float"}

\* Python's == on two cell values: 1 == 1.0, and a number never equals a text.
PyEq(v, w) ==
    IF IsNumber(v) /\ IsNumber(w) THEN v.num = w.num
    ELSE v.type = w.type /\ v.text = w.text

\* The values the scenarios write.
Val == {IntV(1), StrV("x")}

AllFields == <<"a", "b", "c", "d">>
FieldLists == {SubSeq(AllFields, 1, n) : n \in 1..MaxCols}

\* The key csv.DictReader files surplus values under (restkey=None).
RestKey == "<None>"

ReadModes == {"OBJECT", "DICT", "LIST"}
Modes == {"WRITE", "APPEND"}

NoFile == [exists |-> FALSE]
File(rows) == [exists |-> TRUE, rows |-> rows]
NoObject == [open |-> FALSE]

-----------------------------------------------------------------------------
\* Dicts and lists.

Keys(d) == [i \in 1..Len(d) |-> d[i][1]]
Values(d) == [i \in 1..Len(d) |-> d[i][2]]
Has(d, k) == \E i \in 1..Len(d) : d[i][1] = k
Get(d, k) == d[CHOOSE i \in 1..Len(d) : d[i][1] = k][2]
Range(s) == {s[i] : i \in 1..Len(s)}
Zip(keys, vals) == [i \in 1..Len(keys) |-> <<keys[i], vals[i]>>]

\* The dict built from key-value pairs in order: a key that comes again keeps
\* its place and takes the later value.
PyDict(pairs) ==
    LET keep == {i \in 1..Len(pairs) : \A j \in 1..(i - 1) : pairs[j][1] # pairs[i][1]}
    IN  [m \in 1..Cardinality(keep) |->
            LET i == CHOOSE i \in keep : Cardinality({j \in keep : j <= i}) = m
            IN  <<pairs[i][1],
                  pairs[CHOOSE j \in 1..Len(pairs) :
                            /\ pairs[j][1] = pairs[i][1]
                            /\ \A l \in (j + 1)..Len(pairs) : pairs[l][1] # pairs[i][1]][2]>>]

Ok(val, obj) == [exc |-> "none", val |-> val, obj |-> obj]
Raise(exc, obj) == [exc |-> exc, val |-> None, obj |-> obj]

-----------------------------------------------------------------------------
\* Values that cross read() and write(): a list, a dict, or a record value
\* (an object with public attributes).

List(items) == [shape |-> "list", items |-> items]
Dict(items) == [shape |-> "dict", items |-> items]
Obj(items) == [shape |-> "object", items |-> items]

\* What isinstance tells of a value: "list", "dict", "object", or "scalar"
\* for None, a number or a text.
TypeOf(v) == IF "shape" \in DOMAIN v THEN v.shape ELSE "scalar"

\* filedatasource.utils (imported by datafile.py line 5).

\* to_identifier: a key as an attribute name.
ToIdentifier(k) ==
    CASE k = "1" -> "n1"
      [] k = "G&S" -> "G_S"
      [] OTHER -> k

\* dict2obj: a record value whose attributes are the dict's keys.
Dict2Obj(d) == Obj(PyDict([i \in 1..Len(d) |-> <<ToIdentifier(d[i][1]), d[i][2]>>]))

\* dict2list: the dict's values, in the dict's order.
Dict2List(d) == List(Values(d))

\* attributes2dict: the public attributes of a record value, as a dict.
Attributes2Dict(o) == IF TypeOf(o) = "object" THEN o.items ELSE <<>>

-----------------------------------------------------------------------------
\* The csv module: DictWriter and DictReader over a stream of records.
\* A record on the disk is a sequence of texts.

\* str(value), as csv.writer renders a field (None is rendered empty).
PyStr(v) == IF v.type = "none" THEN "" ELSE v.text

\* DictWriter.writeheader
DictWriter_writeheader(file, fieldnames) == File(Append(file.rows, fieldnames))

\* DictWriter.writerow: a key outside fieldnames is a ValueError
\* (extrasaction='raise'), a missing key is written empty (restval='').
DictWriter_writerow(file, fieldnames, row) ==
    IF \E i \in 1..Len(row) : row[i][1] \notin Range(fieldnames)
    THEN Raise("ValueError", file)
    ELSE Ok(None, File(Append(file.rows,
            [i \in 1..Len(fieldnames) |->
                IF Has(row, fieldnames[i]) THEN PyStr(Get(row, fieldnames[i])) ELSE ""])))

\* DictReader.__next__ on the record `rec`: zip with the field names; surplus
\* values go under restkey, missing ones are None (restval).
DictReader_row(fieldnames, rec) ==
    LET lf == Len(fieldnames)
        lr == Len(rec)
        n == IF lf < lr THEN lf ELSE lr
        zipped == [i \in 1..n |-> <<fieldnames[i], StrV(rec[i])>>]
    IN  PyDict(IF lf < lr
               THEN Append(zipped, <<RestKey, [type |-> "list", num |-> 0, text |-> "",
                                               items |-> SubSeq(rec, lf + 1, lr)]>>)
               ELSE zipped \o [i \in 1..(lf - lr) |-> <<fieldnames[lr + i], None>>])

-----------------------------------------------------------------------------
\* The spreadsheet engines.  A sheet is a sequence of rows, row 0 first; a
\* row is a sequence of cells; an unwritten cell is None.

\* xlrd (xls): a number cell reads as a float, an empty cell as ''.
XlsValue(c) ==
    CASE c.type = "int" -> FloatV(c.num)
      [] c.type = "none" -> StrV("")
      [] OTHER -> c

\* openpyxl (xlsx): a cell reads as it was written.
XlsxValue(c) == c

\* The row `cells` cut or padded with empty cells to `n` columns
\* (openpyxl's iter_rows(max_col=n)).
MaxCol(cells, n) == [i \in 1..n |-> IF i <= Len(cells) THEN cells[i] ELSE None]

\* A sheet with `cells` written to row `n` (0-based); cells that are None
\* are not written, rows between are empty.
PutRow(sheet, n, cells) ==
    LET len == IF n + 1 > Len(sheet) THEN n + 1 ELSE Len(sheet)
        old(i) == IF i <= Len(sheet) THEN sheet[i] ELSE [j \in 1..Len(cells) |-> None]
        merge(o) == [j \in 1..(IF Len(o) > Len(cells) THEN Len(o) ELSE Len(cells)) |->
                        IF j <= Len(cells) /\ cells[j] # None THEN cells[j]
                        ELSE IF j <= Len(o) THEN o[j] ELSE None]
    IN  [i \in 1..len |-> IF i = n + 1 THEN merge(old(i)) ELSE old(i)]

-----------------------------------------------------------------------------
\* Readers.  A reader object: ext (its class and engine), mode, fieldnames,
\* row (ExcelReader.__row), iter (the next row of __iter_rows, or the next
\* record of the csv stream, counted from 1) and sheet (the loaded sheet, or
\* the records of the stream).

\* ExcelReader.remove_empty_cells: the loop looks at the last cell first and
\* returns or deletes from self._fieldnames, which is still [] here.
remove_empty_cells(cells) ==
    IF Len(cells) = 0 \/ cells[Len(cells)] # None
    THEN Ok(cells, NoObject)
    ELSE Raise("IndexError", NoObject)

\* ExcelReader.__init__
ExcelReader_init(ext, file, mode) ==
    IF ~file.exists THEN Raise("FileNotFoundError", NoObject)
    ELSE IF ext = "xlsx"
    THEN LET cells == remove_empty_cells([i \in 1..Len(file.rows[1]) |->
                                            XlsxValue(file.rows[1][i])])
         IN  IF cells.exc # "none" THEN cells
             ELSE Ok(None, [open |-> TRUE, ext |-> ext, mode |-> mode,
                            fieldnames |-> [i \in 1..Len(cells.val) |-> cells.val[i].text],
                            row |-> 1, iter |-> 2, sheet |-> file.rows])
    ELSE Ok(None, [open |-> TRUE, ext |-> ext, mode |-> mode,
                   fieldnames |-> [i \in 1..Len(file.rows[1]) |->
                                      XlsValue(file.rows[1][i]).text],
                   row |-> 1, iter |-> 0, sheet |-> file.rows])

\* ExcelReader.__read_xlsx_row
read_xlsx_row(r) ==
    LET row == MaxCol(r.sheet[r.iter], Len(r.fieldnames))
    IN  Ok(PyDict([i \in 1..Len(row) |-> <<r.fieldnames[i], XlsxValue(row[i])>>]),
           [r EXCEPT !.iter = @ + 1])

\* ExcelReader.__read_xls_row: sheet.row(self.__row - 1), after the increment.
read_xls_row(r) ==
    LET row == r.sheet[r.row]
    IN  IF Len(row) > Len(r.fieldnames) THEN Raise("IndexError", r)
        ELSE Ok(PyDict([i \in 1..Len(row) |-> <<r.fieldnames[i], XlsValue(row[i])>>]), r)

\* read_row, were it to start again from the first row once the data ended.
ExcelReader_read_row_rewinds(r) ==
    IF r.row < Len(r.sheet)
    THEN LET r1 == [r EXCEPT !.row = @ + 1]
         IN  IF r.ext = "xlsx" THEN read_xlsx_row(r1) ELSE read_xls_row(r1)
    ELSE Raise("StopIteration", [r EXCEPT !.row = 1, !.iter = 2])

\* ExcelReader.read_row; sheet.max_row (xlsx) and sheet.nrows (xls) are the
\* number of rows of the sheet.
ExcelReader_read_row(r) ==
    IF r.row < Len(r.sheet)
    THEN LET r1 == [r EXCEPT !.row = @ + 1]
         IN  IF r.ext = "xlsx" THEN read_xlsx_row(r1) ELSE read_xls_row(r1)
    ELSE Raise("StopIteration", r)

\* ExcelReader.__len__
ExcelReader_len(r) == Len(r.sheet) - 1

\* CsvReader.__init__: the mode is not a parameter, DataReader.__init__ gets
\* its default.  DictReader takes the first record as the field names.
CsvReader_init(file) ==
    IF ~file.exists THEN Raise("FileNotFoundError", NoObject)
    ELSE Ok(None, [open |-> TRUE, ext |-> "csv", mode |-> "OBJECT",
                   fieldnames |-> IF Len(file.rows) = 0 THEN <<>> ELSE file.rows[1],
                   row |-> 0, iter |-> 2, sheet |-> file.rows])

\* read_row, were it to open the stream again once its records ended.
CsvReader_read_row_reopens(r) ==
    IF r.iter <= Len(r.sheet)
    THEN Ok(DictReader_row(r.fieldnames, r.sheet[r.iter]), [r EXCEPT !.iter = @ + 1])
    ELSE Raise("StopIteration", [r EXCEPT !.iter = 2])

\* CsvReader.read_row: next(self._reader)
CsvReader_read_row(r) ==
    IF r.iter <= Len(r.sheet)
    THEN Ok(DictReader_row(r.fieldnames, r.sheet[r.iter]), [r EXCEPT !.iter = @ + 1])
    ELSE Raise("StopIteration", r)

\* read_row is abstract in DataReader: each class supplies its own.
read_row(r) == IF r.ext = "csv" THEN CsvReader_read_row(r) ELSE ExcelReader_read_row(r)

\* What a method returns from `o`, the outcome of self.read_row(): the row
\* as a list, as a record value, or as it is; an exception of read_row
\* leaves the method.
as_list(o) == IF o.exc # "none" THEN o ELSE Ok(Dict2List(o.val), o.obj)
as_object(o) == IF o.exc # "none" THEN o ELSE Ok(Dict2Obj(o.val), o.obj)
as_dict(o) == IF o.exc # "none" THEN o ELSE Ok(Dict(o.val), o.obj)

\* DataReader.read_list
read_list(r) == as_list(read_row(r))

\* read_object, were the record value to take the keys of the row as they are.
read_object_keeps_keys(r) ==
    IF read_row(r).exc # "none" THEN read_row(r)
    ELSE Ok(Obj(read_row(r).val), read_row(r).obj)

\* DataReader.read_object
read_object(r) == as_object(read_row(r))

\* read, were it to return None at the end of the data instead of raising.
read_returns_none(r) ==
    LET o == IF r.mode = "DICT" THEN as_dict(read_row(r))
             ELSE IF r.mode = "OBJECT" THEN read_object(r)
             ELSE read_list(r)
    IN  IF o.exc = "StopIteration" THEN Ok(None, o.obj) ELSE o

\* read, were the branches of DICT and OBJECT taken for each other.
read_wrong_branch(r) ==
    IF r.mode = "OBJECT" THEN as_dict(read_row(r))
    ELSE IF r.mode = "DICT" THEN read_object(r)
    ELSE read_list(r)

\* DataReader.read
read(r) ==
    IF r.mode = "DICT" THEN as_dict(read_row(r))
    ELSE IF r.mode = "OBJECT" THEN read_object(r)
    ELSE read_list(r)

\* DataReader.__next__
next(r) == read(r)

\* `for obj in reader` and the list comprehension over a reader: __iter__
\* gives the reader itself, __next__ is called until it raises StopIteration,
\* which ends the loop; any other exception leaves it.  `fuel` bounds the
\* loop of a reader that never stops.
RECURSIVE iterate(_, _, _)
\* One turn of the loop, `o` being what __next__ gave.
iterate_turn(o, acc, fuel) ==
    IF o.exc = "StopIteration" THEN Ok(List(acc), o.obj)
    ELSE IF o.exc # "none" THEN o
    ELSE IF fuel = 0 THEN Raise("<never ends>", o.obj)
    ELSE iterate(o.obj, Append(acc, o.val), fuel - 1)

iterate(r, acc, fuel) == iterate_turn(next(r), acc, fuel)

\* DataReader.read_objects
read_objects(r) == iterate(r, <<>>, MaxRows + 1)

\* DataReader.read_lists: the body is `pass`.
read_lists(r) == Ok(None, r)

\* DataReader.read_rows: [row for row in next(self)] iterates the one record
\* that next() returns: a dict gives its keys, a list its items; a record
\* value is not iterable.
comprehension(o) ==
    IF o.exc # "none" THEN o
    ELSE IF TypeOf(o.val) = "dict"
    THEN Ok(List([i \in 1..Len(o.val.items) |->
                    IF o.val.items[i][1] = RestKey THEN None
                    ELSE StrV(o.val.items[i][1])]), o.obj)
    ELSE IF TypeOf(o.val) = "list" THEN Ok(List(o.val.items), o.obj)
    ELSE Raise("TypeError", o.obj)

read_rows(r) == comprehension(next(r))

-----------------------------------------------------------------------------
\* Writers.  A writer object: ext, mode, fieldnames, num_row
\* (ExcelWriter.__num_row) and sheet (the sheet of the document being
\* built).  A writer works on ws = [w |-> the writer, file |-> the file on
\* the disk]: the CSV writer writes its stream as it goes, the spreadsheet
\* writer writes the file when it is closed.

\* DataWriter._parse_fieldnames, for a list.
parse_fieldnames(fieldnames) == fieldnames

\* CsvWriter.write_row
CsvWriter_write_row(ws, row) ==
    LET o == DictWriter_writerow(ws.file, ws.w.fieldnames, row)
    IN  [o EXCEPT !.obj = [ws EXCEPT !.file = o.obj]]

\* write_row, were a row that has none of the fields to leave the counter
\* where it is.
ExcelWriter_write_row_skips_empty(ws, row) ==
    IF \A i \in 1..Len(ws.w.fieldnames) : ~Has(row, ws.w.fieldnames[i]) THEN Ok(None, ws)
    ELSE Ok(None, [ws EXCEPT
            !.w.sheet = PutRow(@, ws.w.num_row,
                               [i \in 1..Len(ws.w.fieldnames) |->
                                   IF Has(row, ws.w.fieldnames[i])
                                   THEN Get(row, ws.w.fieldnames[i]) ELSE None]),
            !.w.num_row = @ + 1])

\* ExcelWriter.write_row: the cell of every field of fieldnames that the row
\* has, at row __num_row; then the counter advances.
ExcelWriter_write_row(ws, row) ==
    LET fn == ws.w.fieldnames
        cells == [i \in 1..Len(fn) |-> IF Has(row, fn[i]) THEN Get(row, fn[i]) ELSE None]
    IN  Ok(None, [ws EXCEPT !.w.sheet = PutRow(@, ws.w.num_row, cells),
                            !.w.num_row = @ + 1])

\* write_row is abstract in DataWriter: each class supplies its own.
write_row(ws, row) ==
    IF ws.w.ext = "csv" THEN CsvWriter_write_row(ws, row) ELSE ExcelWriter_write_row(ws, row)

\* write_dict, were the writer to take up a key it does not know as a new
\* field name.
write_dict_learns(ws, row) ==
    IF \A i \in 1..Len(row) : row[i][1] \in Range(ws.w.fieldnames) THEN write_row(ws, row)
    ELSE write_row([ws EXCEPT !.w.fieldnames =
                        Append(@, row[CHOOSE i \in 1..Len(row) :
                                        row[i][1] \notin Range(ws.w.fieldnames)][1])],
                   row)

\* DataWriter.write_dict
write_dict(ws, row) == write_row(ws, row)

\* write_list, were it to pair the field names with the values from the end.
write_list_backwards(ws, lst) ==
    IF Len(lst) < Len(ws.w.fieldnames) THEN Raise("IndexError", ws)
    ELSE write_dict(ws, PyDict([i \in 1..Len(ws.w.fieldnames) |->
                                  <<ws.w.fieldnames[i], lst[Len(ws.w.fieldnames) + 1 - i]>>]))

\* DataWriter.write_list: {field: lst[i] for i, field in enumerate(fieldnames)}
write_list(ws, lst) ==
    IF Len(lst) < Len(ws.w.fieldnames) THEN Raise("IndexError", ws)
    ELSE write_dict(ws, PyDict([i \in 1..Len(ws.w.fieldnames) |->
                                  <<ws.w.fieldnames[i], lst[i]>>]))

\* DataWriter.write_object
write_object(ws, o) == write_row(ws, Attributes2Dict(o))

\* DataWriter.write
write(ws, o) ==
    IF TypeOf(o) = "list" THEN write_list(ws, o.items)
    ELSE IF TypeOf(o) = "dict" THEN write_dict(ws, o.items)
    ELSE write_object(ws, o)

\* CsvWriter.write: the public members of the value are collected, keyed by
\* their own values, and handed to DictWriter.writerow as keyword arguments;
\* writerow takes one positional argument, so the call raises TypeError
\* whatever the value is, and nothing is written.
CsvWriter_write(ws, o) == Raise("TypeError", ws)

\* write(value) of a writer: CsvWriter defines its own, ExcelWriter has
\* DataWriter's.
writer_write(ws, o) == IF ws.w.ext = "csv" THEN CsvWriter_write(ws, o) ELSE write(ws, o)

\* DataWriter.import_reader: for obj in reader: self.write(obj).  The outcome
\* carries the writer's side and the reader after the loop.
RECURSIVE import_reader(_, _, _)
\* The rest of a turn, were the loop to end after the first record.
import_written_stops(wo, r, fuel) ==
    IF wo.exc # "none" THEN Raise(wo.exc, [ws |-> wo.obj, reader |-> r])
    ELSE Ok(None, [ws |-> wo.obj, reader |-> r])

\* The rest of a turn, `wo` being what self.write(obj) gave.
import_written(wo, r, fuel) ==
    IF wo.exc # "none" THEN Raise(wo.exc, [ws |-> wo.obj, reader |-> r])
    ELSE import_reader(wo.obj, r, fuel - 1)

\* One turn of the loop, `o` being what __next__ gave.
import_turn(ws, o, fuel) ==
    IF o.exc = "StopIteration" THEN Ok(None, [ws |-> ws, reader |-> o.obj])
    ELSE IF o.exc # "none" THEN Raise(o.exc, [ws |-> ws, reader |-> o.obj])
    ELSE IF fuel = 0 THEN Raise("<never ends>", [ws |-> ws, reader |-> o.obj])
    ELSE import_written(writer_write(ws, o.val), o.obj, fuel)

import_reader(ws, r, fuel) == import_turn(ws, next(r), fuel)

\* The header of a spreadsheet writer: self.write_list(self.fieldnames).
write_header(ws) == write_list(ws, [i \in 1..Len(ws.w.fieldnames) |-> StrV(ws.w.fieldnames[i])])

\* The writer as ExcelData.__init__ and create_excel leave it, with its
\* field names set.
new_writer(ext, file, fn, mode) ==
    [w |-> [open |-> TRUE, ext |-> ext, mode |-> mode, fieldnames |-> fn,
            num_row |-> 0, sheet |-> <<>>],
     file |-> file]

\* ExcelWriter.__init__, APPEND, from self.import_reader(reader) on: `h` is
\* what writing the header gave, `r` the reader.
append_done(i) == [exc |-> i.exc, val |-> None, obj |-> i.obj.ws]

append_rows(h, r) ==
    IF h.exc # "none" THEN h ELSE append_done(import_reader(h.obj, r, MaxRows + 1))

\* ExcelWriter.__init__, APPEND: the body of `with ExcelReader(...) as
\* reader`, `ro` being what the reader's construction gave.
append_from(ro, ext, file, fieldnames, mode) ==
    IF ro.exc # "none" THEN Raise(ro.exc, [w |-> NoObject, file |-> file])
    ELSE append_rows(
            write_header(new_writer(ext, file,
                                    IF fieldnames # <<>> THEN parse_fieldnames(fieldnames)
                                    ELSE ro.obj.fieldnames, mode)),
            ro.obj)

\* ExcelWriter.__init__, were APPEND to write the header and leave the rows
\* of the existing sheet out.
ExcelWriter_init_no_replay(ext, file, fieldnames, mode) ==
    IF mode = "WRITE"
    THEN IF fieldnames = <<>> THEN Raise("ValueError", [w |-> NoObject, file |-> file])
         ELSE write_header(new_writer(ext, file, parse_fieldnames(fieldnames), mode))
    ELSE LET ro == ExcelReader_init(ext, file, "DICT")
         IN  IF ro.exc # "none" THEN Raise(ro.exc, [w |-> NoObject, file |-> file])
             ELSE write_header(new_writer(ext, file,
                                          IF fieldnames # <<>> THEN parse_fieldnames(fieldnames)
                                          ELSE ro.obj.fieldnames, mode))

\* ExcelWriter.__init__.  fieldnames = <<>> stands for None.
ExcelWriter_init(ext, file, fieldnames, mode) ==
    IF mode = "WRITE"
    THEN IF fieldnames = <<>> THEN Raise("ValueError", [w |-> NoObject, file |-> file])
         ELSE write_header(new_writer(ext, file, parse_fieldnames(fieldnames), mode))
        ELSE append_from(ExcelReader_init(ext, file, "DICT"), ext, file, fieldnames, mode)

\* ExcelWriter.close: save (xls) or close (xlsx) writes the document.
ExcelWriter_close(ws) == [ws EXCEPT !.file = File(ws.w.sheet), !.w.open = FALSE]

\* __len__, were the header row counted with the data rows.
ExcelWriter_len_with_header(w) == w.num_row

\* ExcelWriter.__len__
ExcelWriter_len(w) == w.num_row - 1

\* ExcelReader.close: nothing to do.
ExcelReader_close(r) == [r EXCEPT !.open = FALSE]

\* CsvWriter.__init__, were the header written in APPEND mode too.
CsvWriter_init_always_header(file, fieldnames, mode) ==
    LET w == [open |-> TRUE, ext |-> "csv", mode |-> mode, fieldnames |-> fieldnames,
              num_row |-> 0, sheet |-> <<>>]
        stream == IF mode = "WRITE" \/ ~file.exists THEN File(<<>>) ELSE file
    IN  Ok(None, [w |-> w, file |-> DictWriter_writeheader(stream, fieldnames)])

\* CsvWriter.__init__: open(file, 'wt') truncates, open(file, 'at') keeps the
\* records and creates the file when it is missing; the header is written in
\* WRITE mode only.
CsvWriter_init(file, fieldnames, mode) ==
    LET w == [open |-> TRUE, ext |-> "csv", mode |-> mode, fieldnames |-> fieldnames,
              num_row |-> 0, sheet |-> <<>>]
        stream == IF mode = "WRITE" \/ ~file.exists THEN File(<<>>) ELSE file
    IN  Ok(None, [w |-> w,
                  file |-> IF mode = "WRITE" THEN DictWriter_writeheader(stream, fieldnames)
                           ELSE stream])

\* CsvWriter.write_rows
RECURSIVE CsvWriter_write_rows(_, _)
\* The rest of the loop, `o` being what self.write_row(**row) gave.
write_rest(o, rows) == IF o.exc # "none" THEN o ELSE CsvWriter_write_rows(o.obj, rows)

CsvWriter_write_rows(ws, rows) ==
    IF rows = <<>> THEN Ok(None, ws)
    ELSE write_rest(CsvWriter_write_row(ws, Head(rows)), Tail(rows))

\* close() of the CSV classes: the stream the object opened is released.
Csv_close(ws) == [ws EXCEPT !.w.open = FALSE]
CsvReader_close(r) == [r EXCEPT !.open = FALSE]

\* The stream under a CSV object: whether it is open, and who opened it, the
\* object itself (from a path) or the caller, who handed it over open.  The
\* spreadsheet classes hold no stream: the engines read the workbook when it
\* is opened and write it when it is saved.
NoStream == [open |-> FALSE, owner |-> "none"]
opened_by_object == [open |-> TRUE, owner |-> "object"]
opened_by_caller == [open |-> TRUE, owner |-> "caller"]

\* f = open(file, 'wt') or open(file, 'at') by the caller: the first
\* truncates, the second keeps the records; both create a missing file.
caller_open(file, mode) == IF mode = "WRITE" \/ ~file.exists THEN File(<<>>) ELSE file

\* CsvWriter.__init__ with a stream for file_or_io: self._file is assigned
\* in the branch of a path only, so DictWriter(self._file, ...) raises
\* AttributeError and no writer is made.
CsvWriter_init_io(file, fieldnames, mode) ==
    Raise("AttributeError", [w |-> NoObject, file |-> file])

\* close() of the CSV classes, on the stream: it is closed when the object
\* opened it, and left as it is when the caller did.
Csv_close_file(st) == IF st.owner = "object" THEN NoStream ELSE st

\* The stream after close() of a reader or writer of the format `e`.
close_file(e, st) == IF e = "csv" THEN Csv_close_file(st) ELSE st

\* close is abstract in DataFile: each class supplies its own.
writer_close(ws) == IF ws.w.ext = "csv" THEN Csv_close(ws) ELSE ExcelWriter_close(ws)
reader_close(r) == IF r.ext = "csv" THEN CsvReader_close(r) ELSE ExcelReader_close(r)

-----------------------------------------------------------------------------
\* DataFile: the `with` protocol.

\* DataFile.__enter__
DataFile_enter(self) == self

\* __exit__, were it to close only when the body ended without an exception.
Writer_exit_unless_failed(ws, exc_type) ==
    IF exc_type = "none" THEN [obj |-> writer_close(ws), closes |-> 1, suppress |-> FALSE]
    ELSE [obj |-> ws, closes |-> 0, suppress |-> FALSE]

\* DataFile.__exit__ of a writer and of a reader: close(); the return value
\* None lets a pending exception go on to the caller.
Writer_exit(ws, exc_type) == [obj |-> writer_close(ws), closes |-> 1, suppress |-> FALSE]
Reader_exit(r, exc_type) == [obj |-> reader_close(r), closes |-> 1, suppress |-> FALSE]

-----------------------------------------------------------------------------
\* The state.

VARIABLES
    ext,     \* the format of the file: "csv", "xls" or "xlsx"
    disk,    \* the file on the disk
    writer,  \* the writer of the running session, or NoObject
    reader,  \* the reader of the running session, or NoObject
    pc,      \* "idle", "writing", "reading", or "failed" (an exception is leaving the body)
    res,     \* the outcome of the last call: [op, exc, val]
    sess,    \* what happened in the session, for the properties (no operation reads it)
    log,     \* the rows written to the file since it was created or truncated (likewise)
    fs,      \* the files the builder functions work on, by name
    out,     \* the outcome of the last call of a builder function
    stream,  \* the stream of the CSV file: whether it is open, and who opened it
    book,    \* a workbook of several sheets on the disk
    done     \* the outcome of the last call on the workbook

vars == <<ext, disk, writer, reader, pc, res, sess, log, fs, out, stream, book, done>>

Exts == {"csv", "xls", "xlsx"}

NoRes == [op |-> "none", exc |-> "none", val |-> None]
Res(op, o) == [op |-> op, exc |-> o.exc, val |-> o.val]

\* sess: kind ("w", "r"), mode, bound (the `with` target is the object
\* itself), closes (the calls of close()), how (the way the body was left),
\* exc (the exception leaving the body), given (the fieldnames argument),
\* wrote (the rows written in the session), before (the file when a
\* spreadsheet writer was opened to append), eof (read_row has signalled the
\* end), returned (the rows read_row has returned), first (the last read call
\* was the reader's first).
NoSess == [kind |-> "none", mode |-> "none", bound |-> TRUE, closes |-> 0, how |-> "none",
           exc |-> "none", given |-> <<>>, wrote |-> 0, before |-> NoFile,
           eof |-> FALSE, returned |-> 0, first |-> FALSE]

\* log: headers (the header rows written to the file), hdr (the field names
\* of its header), rows (the rows written, each with the writer's field
\* names and the values the row is to hold), same (every writer opened on
\* the file since its header was written had the header's field names).
NoLog == [headers |-> 0, hdr |-> <<>>, rows |-> <<>>, same |-> TRUE]

\* The inputs of the write calls: dicts over a field list, and lists.
RowDicts == UNION {{Zip(f, v) : v \in [1..Len(f) -> Val]} : f \in FieldLists}
RowLists == UNION {[1..n -> Val] : n \in 1..MaxCols}

\* The values a written row is to hold, by position of the field names.
Expect(fn, o) ==
    [i \in 1..Len(fn) |->
        IF o.shape = "list" THEN o.items[i]
        ELSE IF Has(o.items, fn[i]) THEN Get(o.items, fn[i]) ELSE None]

\* No builder function has been called.
NoFiles == <<>>
NoOut == [op |-> "none", saves |-> 0]

\* No workbook, and no call on one.
NoBook == [exists |-> FALSE]
NoDone == [op |-> "none", saves |-> 0]

Init ==
    /\ ext \in Exts
    /\ disk = NoFile
    /\ writer = NoObject
    /\ reader = NoObject
    /\ pc = "idle"
    /\ res = NoRes
    /\ sess = NoSess
    /\ log = NoLog
    /\ fs = NoFiles
    /\ out = NoOut
    /\ stream = NoStream
    /\ book = NoBook
    /\ done = NoDone

\* The number of rows the file holds (the writer's document for a
\* spreadsheet), the header included.
RowsHeld == IF ext = "csv" THEN Len(disk.rows) ELSE writer.num_row

\* with CsvWriter(file, fieldnames, mode) / ExcelWriter(file, 0, fieldnames, mode) as writer:
\* The step of a writer's construction with outcome `o`, and __enter__.
Opened(fieldnames, mode, o) ==
    /\ res' = Res("open_writer", o)
    /\ disk' = o.obj.file
    /\ IF o.exc = "none"
       THEN /\ writer' = DataFile_enter(o.obj.w)
            /\ pc' = "writing"
            /\ sess' = [NoSess EXCEPT
                 !.kind = "w", !.mode = mode, !.given = fieldnames,
                 !.bound = (DataFile_enter(o.obj.w) = o.obj.w),
                 !.before = IF ext # "csv" /\ mode = "APPEND" THEN disk ELSE NoFile]
            /\ log' = IF mode = "WRITE"
                      THEN [NoLog EXCEPT !.headers = 1, !.hdr = fieldnames]
                      ELSE IF ~disk.exists THEN NoLog
                      ELSE [log EXCEPT
                              !.same = @ /\ o.obj.w.fieldnames = log.hdr,
                              !.hdr = IF ext # "csv" /\ fieldnames # <<>>
                                      THEN fieldnames ELSE @]
       ELSE /\ writer' = NoObject
            /\ pc' = "idle"
            /\ sess' = NoSess
            /\ log' = log
    /\ stream' = IF o.exc = "none" /\ ext = "csv" THEN opened_by_object ELSE stream
    /\ UNCHANGED <<ext, reader, fs, out, book, done>>

OpenWriter(fieldnames, mode) ==
    /\ pc = "idle" /\ ~stream.open
    /\ ext = "csv" /\ fieldnames = <<>> => mode = "APPEND"
    /\ Opened(fieldnames, mode,
              IF ext = "csv" THEN CsvWriter_init(disk, fieldnames, mode)
              ELSE ExcelWriter_init(ext, disk, fieldnames, mode))

\* f = open(file, 'wt' / 'at'); with CsvWriter(f, fieldnames, mode) as writer:
\* the caller's open creates or truncates the file, the construction fails
\* and the stream stays with the caller.
OpenWriterOnStream(fieldnames, mode) ==
    /\ pc = "idle" /\ ~stream.open /\ ext = "csv"
    /\ res' = Res("open_writer", CsvWriter_init_io(caller_open(disk, mode), fieldnames, mode))
    /\ disk' = CsvWriter_init_io(caller_open(disk, mode), fieldnames, mode).obj.file
    /\ log' = IF mode = "WRITE" \/ ~disk.exists THEN NoLog ELSE log
    /\ stream' = opened_by_caller
    /\ sess' = NoSess
    /\ UNCHANGED <<ext, writer, reader, pc, fs, out, book, done>>

\* f.close() by the caller, once no session runs on the stream.
CallerCloses ==
    /\ pc = "idle" /\ stream.open /\ stream.owner = "caller"
    /\ stream' = NoStream
    /\ UNCHANGED <<ext, disk, writer, reader, pc, res, sess, log, fs, out, book, done>>

WS == [w |-> writer, file |-> disk]

\* The step of a write call with outcome `o` that wrote the rows `rows`.
Written(op, o, rows) ==
    /\ res' = Res(op, o)
    /\ writer' = o.obj.w
    /\ disk' = o.obj.file
    /\ log' = [log EXCEPT !.rows = @ \o [i \in 1..Len(rows) |->
                    [fn |-> writer.fieldnames, vals |-> Expect(writer.fieldnames, rows[i])]]]
    /\ sess' = [sess EXCEPT !.wrote = @ + Len(rows)]
    /\ UNCHANGED <<ext, reader, pc, fs, out, stream, book, done>>

\* The step of a call that writes the one row `row`.
WrittenOne(op, o, row) == Written(op, o, IF o.exc = "none" THEN <<row>> ELSE <<>>)

\* writer.write_row(**row)
WriteRow(row) ==
    /\ pc = "writing" /\ RowsHeld <= MaxRows
    /\ WrittenOne("write_row", write_row(WS, row), Dict(row))

\* writer.write_dict(row)
WriteDict(row) ==
    /\ pc = "writing" /\ RowsHeld <= MaxRows /\ ext # "csv"
    /\ WrittenOne("write_dict", write_dict(WS, row), Dict(row))

\* writer.write_list(lst)
WriteList(lst) ==
    /\ pc = "writing" /\ RowsHeld <= MaxRows /\ ext # "csv"
    /\ WrittenOne("write_list", write_list(WS, lst), List(lst))

\* writer.write(o), of a row as a list, as a dict or as a record value
Write(o) ==
    /\ pc = "writing" /\ RowsHeld <= MaxRows
    /\ WrittenOne("write", writer_write(WS, o), o)

\* writer.write_rows([row1, row2]) of the CSV writer; the rows before the
\* one that raises are written.
WrittenTwo(o, row1, row2) ==
    Written("write_rows", o,
            IF o.exc = "none" THEN <<Dict(row1), Dict(row2)>>
            ELSE IF \A i \in 1..Len(row1) : row1[i][1] \in Range(writer.fieldnames)
            THEN <<Dict(row1)>> ELSE <<>>)

WriteRows(row1, row2) ==
    /\ pc = "writing" /\ RowsHeld + 1 <= MaxRows /\ ext = "csv"
    /\ WrittenTwo(CsvWriter_write_rows(WS, <<row1, row2>>), row1, row2)

\* The rows a reader has taken from its source.
Position(r) == IF r.ext = "csv" THEN r.iter - 2 ELSE r.row - 1

\* with ExcelWriter(other, fieldnames=reader.fieldnames) as writer:
\*     writer.import_reader(reader)
\* inside the reader's session, `other` being a new file of the engine
\* `dst`; `wo` is what the writer's construction gave.
import_into(wo, r) ==
    IF wo.exc # "none" THEN Raise(wo.exc, [ws |-> wo.obj, reader |-> r])
    ELSE import_reader(wo.obj, r, MaxRows + 1)

\* The step of an import with outcome `o`; res.val is the writer after it.
Imported(o) ==
    /\ res' = [op |-> "import_reader", exc |-> o.exc, val |-> o.obj.ws.w]
    /\ reader' = o.obj.reader
    /\ sess' = [sess EXCEPT !.returned = @ + Position(o.obj.reader) - Position(reader),
                            !.eof = @ \/ o.exc = "none",
                            !.first = (sess.returned = 0 /\ ~sess.eof)]
    /\ UNCHANGED <<ext, disk, writer, pc, log, fs, out, stream, book, done>>

ImportReader(dst) ==
    /\ pc = "reading" /\ reader.fieldnames # <<>>
    /\ Imported(import_into(ExcelWriter_init(dst, NoFile, reader.fieldnames, "WRITE"), reader))

\* An exception leaves the body of the `with`: the one the last call raised,
\* which the body did not catch, or one of the body's own.
BodyFails ==
    /\ pc \in {"writing", "reading"}
    /\ \E e \in {"RuntimeError"} \cup (IF res.exc # "none" /\ res.op # "open_writer"
                                          /\ res.op # "open_reader" THEN {res.exc} ELSE {}) :
            sess' = [sess EXCEPT !.exc = e]
    /\ pc' = "failed"
    /\ res' = NoRes
    /\ UNCHANGED <<ext, disk, writer, reader, log, fs, out, stream, book, done>>

\* What is left of the session once the `with` is over.
Left(how, closes) ==
    [NoSess EXCEPT !.kind = sess.kind, !.mode = sess.mode, !.how = how, !.exc = sess.exc,
                   !.closes = sess.closes + closes, !.given = sess.given,
                   !.wrote = sess.wrote, !.before = sess.before]

\* The end of a `with`, `x` being what __exit__ gave: the pending exception
\* reaches the caller unless __exit__ returned a true value.
Exited(how, x) ==
    /\ res' = [op |-> "with", val |-> None,
               exc |-> IF how = "raise" /\ ~x.suppress THEN sess.exc ELSE "none"]
    /\ sess' = Left(how, x.closes)

\* The end of a writer's `with`: the body ran to its end, returned early, or
\* an exception is leaving it; __exit__ runs on each path.
ExitWriter(how) ==
    /\ writer # NoObject
    /\ (pc = "writing" /\ how \in {"normal", "return"}) \/ (pc = "failed" /\ how = "raise")
    /\ disk' = Writer_exit(WS, sess.exc).obj.file
    /\ Exited(how, Writer_exit(WS, sess.exc))
    /\ writer' = NoObject
    /\ pc' = "idle"
    /\ stream' = close_file(ext, stream)
    /\ UNCHANGED <<ext, reader, log, fs, out, book, done>>

\* with CsvReader(file) / ExcelReader(file, 0, mode) as reader:
\* The step of a reader's construction with outcome `o`, and __enter__.
OpenedReader(o, st) ==
    /\ res' = Res("open_reader", o)
    /\ stream' = IF o.exc = "none" THEN st ELSE stream
    /\ IF o.exc = "none"
       THEN /\ reader' = DataFile_enter(o.obj)
            /\ pc' = "reading"
            /\ sess' = [NoSess EXCEPT !.kind = "r",
                                      !.bound = (DataFile_enter(o.obj) = o.obj)]
       ELSE /\ reader' = NoObject
            /\ pc' = "idle"
            /\ sess' = NoSess
    /\ UNCHANGED <<ext, disk, writer, log, fs, out, book, done>>

OpenReader(mode) ==
    /\ pc = "idle" /\ ~stream.open
    /\ ext = "csv" => mode = "OBJECT"
    /\ OpenedReader(IF ext = "csv" THEN CsvReader_init(disk)
                    ELSE ExcelReader_init(ext, disk, mode),
                    IF ext = "csv" THEN opened_by_object ELSE stream)

\* f = open(file, 'rt'); with CsvReader(f) as reader: the reader takes the
\* stream as it is given (self._file = file_or_io).
OpenReaderOnStream ==
    /\ pc = "idle" /\ ~stream.open /\ ext = "csv" /\ disk.exists
    /\ OpenedReader(CsvReader_init(disk), opened_by_caller)

\* The step of a read call with outcome `o` that took `n` rows from the
\* reader; `end` says whether read_row signalled the end of the data in it.
Taken(op, o, n, end) ==
    /\ res' = Res(op, o)
    /\ reader' = o.obj
    /\ sess' = [sess EXCEPT !.returned = @ + n,
                            !.eof = @ \/ end,
                            !.first = (sess.returned = 0 /\ ~sess.eof)]
    /\ UNCHANGED <<ext, disk, writer, pc, log, fs, out, stream, book, done>>

Single(op, o) == Taken(op, o, IF o.exc = "none" THEN 1 ELSE 0, o.exc = "StopIteration")

\* reader.read_row()
ReadRow == pc = "reading" /\ Single("read_row", read_row(reader))

\* reader.read(), next(reader)
Read == pc = "reading" /\ Single("read", read(reader))

\* reader.read_list()
ReadList == pc = "reading" /\ Single("read_list", read_list(reader))

\* reader.read_object()
ReadObject == pc = "reading" /\ Single("read_object", read_object(reader))

\* reader.read_rows(): next(self) takes a row from the source even when the
\* comprehension over it then fails.
TakenOne(op, o) ==
    Taken(op, o, IF o.exc = "StopIteration" THEN 0 ELSE 1, o.exc = "StopIteration")

ReadRows == pc = "reading" /\ TakenOne("read_rows", read_rows(reader))

\* reader.read_lists()
ReadLists == pc = "reading" /\ Taken("read_lists", read_lists(reader), 0, FALSE)

Drained(op, o) ==
    Taken(op, o, IF o.exc = "none" THEN Len(o.val.items) ELSE 0, o.exc = "none")

\* reader.read_objects()
ReadObjects == pc = "reading" /\ Drained("read_objects", read_objects(reader))

\* for obj in reader: ...   (the loop runs to its end; res.val is what it saw)
ForLoop == pc = "reading" /\ Drained("for", iterate(reader, <<>>, MaxRows + 1))

\* The end of a reader's `with`.
ExitReader(how) ==
    /\ reader # NoObject
    /\ (pc = "reading" /\ how \in {"normal", "return"}) \/ (pc = "failed" /\ how = "raise")
    /\ Exited(how, Reader_exit(reader, sess.exc))
    /\ reader' = NoObject
    /\ pc' = "idle"
    /\ stream' = close_file(ext, stream)
    /\ UNCHANGED <<ext, disk, writer, log, fs, out, book, done>>

Hows == {"normal", "return", "raise"}

Next ==
    \/ \E f \in FieldLists \cup {<<>>}, m \in Modes : OpenWriter(f, m)
    \/ \E f \in FieldLists, m \in Modes : OpenWriterOnStream(f, m)
    \/ CallerCloses
    \/ \E row \in RowDicts \cup {<<>>} : WriteRow(row)
    \/ \E row \in RowDicts : WriteDict(row)
    \/ \E lst \in RowLists : WriteList(lst)
    \/ \E lst \in RowLists : Write(List(lst))
    \/ \E row \in RowDicts : Write(Dict(row))
    \/ \E row \in RowDicts : Write(Obj(row))
    \/ \E row1, row2 \in RowDicts : WriteRows(row1, row2)
    \/ BodyFails
    \/ \E how \in Hows : ExitWriter(how)
    \/ \E m \in ReadModes : OpenReader(m)
    \/ OpenReaderOnStream
    \/ ReadRow
    \/ Read
    \/ ReadList
    \/ ReadObject
    \/ ReadRows
    \/ ReadLists
    \/ ReadObjects
    \/ ForLoop
    \/ \E dst \in {"xls", "xlsx"} : ImportReader(dst)
    \/ \E how \in Hows : ExitReader(how)

Spec == Init /\ [][Next]_vars

-----------------------------------------------------------------------------
\* The builder functions (builder.py) over the files of a directory.
\* A file name is the sequence of its parts between the dots:
\* <<"data", "CSV", "GZ">> is 'data.CSV.GZ'.

\* How many calls that write a file the scenarios make.
MaxSaves == 2

\* str.lower, part by part.
LowerPart(part) ==
    CASE part = "CSV" -> "csv"
      [] part = "GZ" -> "gz"
      [] part = "XLS" -> "xls"
      [] part = "XLSX" -> "xlsx"
      [] part = "DATA" -> "data"
      [] part = "Data" -> "data"
      [] OTHER -> part
lower(fname) == [i \in 1..Len(fname) |-> LowerPart(fname[i])]

\* fname.endswith('.' + suffix): the parts of the suffix end the name, with a
\* dot before them.
endswith(fname, suffix) ==
    /\ Len(fname) > Len(suffix)
    /\ SubSeq(fname, Len(fname) - Len(suffix) + 1, Len(fname)) = suffix

\* The class open_reader makes for the name, or the error it raises.
open_reader_class(fname) ==
    IF endswith(lower(fname), <<"csv">>) \/ endswith(lower(fname), <<"csv", "gz">>)
    THEN "CsvReader"
    ELSE IF endswith(lower(fname), <<"xls">>) \/ endswith(lower(fname), <<"xlsx">>)
    THEN "ExcelReader"
    ELSE "ValueError"

\* The class open_writer makes for the name, or the error it raises.
open_writer_class(fname) ==
    IF endswith(lower(fname), <<"csv">>) \/ endswith(lower(fname), <<"csv", "gz">>)
    THEN "CsvWriter"
    ELSE IF endswith(lower(fname), <<"xls">>) \/ endswith(lower(fname), <<"xlsx">>)
    THEN "ExcelWriter"
    ELSE "ValueError"

\* The engine the spreadsheet classes take for the name (open_excel,
\* create_excel, ExcelReader.__init__).
engine(fname) == IF endswith(lower(fname), <<"xlsx">>) THEN "xlsx" ELSE "xls"

\* CsvReader(fname, mode=mode): the reader with the mode the caller asked for.
CsvReader_mode(o, mode) ==
    IF o.exc # "none" THEN o ELSE Ok(None, [o.obj EXCEPT !.mode = mode])

\* open_reader
open_reader(files, fname, mode) ==
    IF open_reader_class(fname) = "CsvReader"
    THEN CsvReader_mode(CsvReader_init(files[fname]), mode)
    ELSE IF open_reader_class(fname) = "ExcelReader"
    THEN ExcelReader_init(engine(fname), files[fname], mode)
    ELSE Raise("ValueError", NoObject)

\* open_writer, were it to open the file for writing before it looks at the
\* extension.
open_writer_opens_first(files, fname, fieldnames) ==
    IF open_writer_class(fname) = "CsvWriter"
    THEN CsvWriter_init(files[fname], fieldnames, "WRITE")
    ELSE IF open_writer_class(fname) = "ExcelWriter"
    THEN ExcelWriter_init(engine(fname), files[fname], fieldnames, "WRITE")
    ELSE Raise("ValueError", [w |-> NoObject, file |-> File(<<>>)])

\* open_writer; the outcome carries the writer and the file as the
\* construction left it.
open_writer(files, fname, fieldnames) ==
    IF open_writer_class(fname) = "CsvWriter"
    THEN CsvWriter_init(files[fname], fieldnames, "WRITE")
    ELSE IF open_writer_class(fname) = "ExcelWriter"
    THEN ExcelWriter_init(engine(fname), files[fname], fieldnames, "WRITE")
    ELSE Raise("ValueError", [w |-> NoObject, file |-> files[fname]])

\* load_objs, load_dicts, load_lists: with open_reader(fname, mode) as
\* reader: return [obj for obj in reader]; `ro` is what open_reader gave.
load_from(ro) == IF ro.exc # "none" THEN ro ELSE iterate(ro.obj, <<>>, MaxRows + 1)

\* load
load(files, fname, mode) == load_from(open_reader(files, fname, mode))

\* dict_keys2list (filedatasource.utils): the keys of the sample mapping, as
\* they are, in the mapping's order.
dict_keys2list(d) == Keys(d)

\* The end of a `with` over a writer for the file `fname`, `o` being what
\* the body gave: __exit__ closes the writer, an exception goes on.
closed(files, fname, o) ==
    [exc |-> o.exc, val |-> None,
     obj |-> [files EXCEPT ![fname] = writer_close(o.obj).file]]

\* A writer's construction that failed: the file is as the constructor left it.
not_opened(files, fname, wo) == Raise(wo.exc, [files EXCEPT ![fname] = wo.obj.file])

\* with <writer of fname>(fname, fieldnames=d) as writer:
\*     writer.write_dict(d); writer.write_list(list(d.values()))
\* `o` is what write_dict gave, `wo` what the construction gave.  DictWriter
\* takes the keys of a mapping given as its fieldnames; _parse_fieldnames of
\* a spreadsheet writer takes dict_keys2list of it.
sample_list(o, d) == IF o.exc # "none" THEN o ELSE write_list(o.obj, Values(d))

sample_into(files, fname, wo, d) ==
    IF wo.exc # "none" THEN not_opened(files, fname, wo)
    ELSE closed(files, fname, sample_list(write_dict(wo.obj, d), d))

write_sample(files, fname, d) ==
    sample_into(files, fname,
                open_writer(files, fname,
                            IF open_writer_class(fname) = "CsvWriter" THEN Keys(d)
                            ELSE dict_keys2list(d)),
                d)

\* convert, from the import on: `i` is what writer.import_reader(reader) gave.
converted(files, to_file, i) ==
    [exc |-> i.exc, val |-> None,
     obj |-> [files EXCEPT ![to_file] = writer_close(i.obj.ws).file]]

\* convert, from the inner `with` on: `wo` is what open_writer gave.
convert_into(files, to_file, wo, r) ==
    IF wo.exc # "none" THEN not_opened(files, to_file, wo)
    ELSE converted(files, to_file, import_reader(wo.obj, r, MaxRows + 1))

\* convert, from the outer `with` on: `ro` is what open_reader gave.
convert_from(files, to_file, ro) ==
    IF ro.exc # "none" THEN Raise(ro.exc, files)
    ELSE convert_into(files, to_file, open_writer(files, to_file, ro.obj.fieldnames), ro.obj)

\* convert, were the paths not compared.
convert_unguarded(files, fr_file, to_file) ==
    convert_from(files, to_file, open_reader(files, fr_file, "DICT"))

\* convert
convert(files, fr_file, to_file) ==
    IF fr_file = to_file THEN Raise("ValueError", files)
    ELSE convert_from(files, to_file, open_reader(files, fr_file, "DICT"))

\* equals: the two loops over the rows of dict1 and the keys of each.
RECURSIVE equals_rows(_, _, _, _)
equals_rows(dict1, dict2, i, k) ==
    IF i > Len(dict1) THEN TRUE
    ELSE IF k > Len(dict1[i].items) THEN equals_rows(dict1, dict2, i + 1, 1)
    ELSE IF \/ ~Has(dict2[i].items, dict1[i].items[k][1])
            \/ ~PyEq(dict1[i].items[k][2], Get(dict2[i].items, dict1[i].items[k][1]))
    THEN FALSE
    ELSE equals_rows(dict1, dict2, i, k + 1)

\* equals, were the rows of the second file looked through as well.
equals_loaded_both_ways(o1, o2) ==
    IF o1.exc # "none" THEN o1
    ELSE IF o2.exc # "none" THEN o2
    ELSE IF Len(o1.val.items) # Len(o2.val.items) THEN Ok(FALSE, NoObject)
    ELSE Ok(equals_rows(o1.val.items, o2.val.items, 1, 1)
                /\ equals_rows(o2.val.items, o1.val.items, 1, 1), NoObject)

\* equals, `o1` and `o2` being what the two load_dicts gave.
equals_loaded(o1, o2) ==
    IF o1.exc # "none" THEN o1
    ELSE IF o2.exc # "none" THEN o2
    ELSE IF Len(o1.val.items) # Len(o2.val.items) THEN Ok(FALSE, NoObject)
    ELSE Ok(equals_rows(o1.val.items, o2.val.items, 1, 1), NoObject)

equals(files, filename1, filename2) ==
    equals_loaded(load(files, filename1, "DICT"), load(files, filename2, "DICT"))

\* The names and the sample mappings of the scenarios.
FileNames ==
    {<<"data", "csv">>, <<"DATA", "CSV", "GZ">>, <<"data", "gz">>,
     <<"data", "xls">>, <<"Data", "XLSX">>, <<"data", "txt">>, <<"csv">>}

KeyLists == FieldLists \cup {<<"1", "G&S">>}
SampleDicts == {Zip(k, [i \in 1..Len(k) |-> v]) : k \in KeyLists, v \in Val}

\* The names open_reader and open_writer take.
TableNames == {n \in FileNames : open_reader_class(n) # "ValueError"}

\* A spreadsheet made elsewhere: the second cell of its header is empty.
Ragged == File(<<<<StrV("a"), None>>, <<StrV("x"), StrV("x")>>>>)

\* A file that is no table.
Foreign == File(<<<<"text">>>>)

\* The files a scenario starts with.
InitFiles(fname) ==
    IF open_reader_class(fname) = "ExcelReader" THEN {NoFile, Ragged}
    ELSE IF fname = <<"data", "txt">> THEN {Foreign}
    ELSE {NoFile}

\* out: op, fname and other (the arguments: the name, and the second name,
\* the mode or the sample), cls (the class the dispatcher chose for the
\* name it was given), exc and val (the outcome), saves (the calls so far
\* that may write a file).
Out(op, fname, other, cls, o, saves) ==
    [op |-> op, fname |-> fname, other |-> other, cls |-> cls,
     exc |-> o.exc, val |-> o.val, saves |-> saves]

\* The step of a call that may write files, with outcome `o`.
Saved(op, fname, other, cls, o) ==
    /\ out' = Out(op, fname, other, cls, o, out.saves + 1)
    /\ fs' = o.obj

\* A writer session that takes its field names from the sample mapping d.
WriteSample(fname, d) ==
    /\ out.saves < MaxSaves
    /\ Saved("write_sample", fname, d, open_writer_class(fname), write_sample(fs, fname, d))
    /\ UNCHANGED <<ext, disk, writer, reader, pc, res, sess, log, stream, book, done>>

\* convert(fr_file, to_file)
Convert(fr_file, to_file) ==
    /\ out.saves < MaxSaves
    /\ Saved("convert", fr_file, to_file, open_writer_class(to_file),
             convert(fs, fr_file, to_file))
    /\ UNCHANGED <<ext, disk, writer, reader, pc, res, sess, log, stream, book, done>>

\* load(fname, mode)
Load(fname, mode) ==
    /\ out' = Out("load", fname, mode, open_reader_class(fname), load(fs, fname, mode),
                  out.saves)
    /\ UNCHANGED <<ext, disk, writer, reader, pc, res, sess, log, fs, stream, book, done>>

\* equals(filename1, filename2)
Equals(filename1, filename2) ==
    /\ out' = Out("equals", filename1, filename2, open_reader_class(filename1),
                  equals(fs, filename1, filename2), out.saves)
    /\ UNCHANGED <<ext, disk, writer, reader, pc, res, sess, log, fs, stream, book, done>>

InitBuilder ==
    /\ ext = "csv"
    /\ disk = NoFile
    /\ writer = NoObject
    /\ reader = NoObject
    /\ pc = "idle"
    /\ res = NoRes
    /\ sess = NoSess
    /\ log = NoLog
    /\ fs \in {f \in [FileNames -> {NoFile, Ragged, Foreign}] :
                \A n \in FileNames : f[n] \in InitFiles(n)}
    /\ out = NoOut
    /\ stream = NoStream
    /\ book = NoBook
    /\ done = NoDone

NextBuilder ==
    \/ \E n \in FileNames, d \in SampleDicts : WriteSample(n, d)
    \/ \E n \in TableNames, m \in FileNames : Convert(n, m)
    \/ \E n \in FileNames, m \in ReadModes : Load(n, m)
    \/ \E n, m \in TableNames : Equals(n, m)

Builder == InitBuilder /\ [][NextBuilder]_vars

-----------------------------------------------------------------------------
\* Workbooks of several sheets (excel.py).  A workbook is the sequence of
\* its sheets, each with its name and its rows; a sheet is asked for by
\* index or by name.

Book(shs) == [exists |-> TRUE, sheets |-> shs]
Sheet(name, rows) == [name |-> name, rows |-> rows]

ByIndex(n) == [by |-> "index", index |-> n, name |-> ""]
ByName(name) == [by |-> "name", index |-> 0, name |-> name]

\* The place of the sheet in the workbook (from 1), or 0 when the workbook
\* has no such sheet.
position(bk, sheet) ==
    IF sheet.by = "index"
    THEN IF sheet.index < Len(bk.sheets) THEN sheet.index + 1 ELSE 0
    ELSE IF \E i \in 1..Len(bk.sheets) : bk.sheets[i].name = sheet.name
    THEN CHOOSE i \in 1..Len(bk.sheets) : bk.sheets[i].name = sheet.name
    ELSE 0

\* ExcelReader.__init__, the choice of the sheet: doc[sheet] or
\* doc[doc.sheetnames[sheet]] (xlsx), sheet_by_name or sheet_by_index (xls).
\* The outcome carries the rows of the sheet as a file of one sheet.
select(e, bk, sheet) ==
    IF ~bk.exists THEN Raise("FileNotFoundError", NoFile)
    ELSE IF position(bk, sheet) = 0
    THEN Raise(IF sheet.by = "index" THEN "IndexError"
               ELSE IF e = "xlsx" THEN "KeyError" ELSE "XLRDError", NoFile)
    ELSE Ok(None, File(bk.sheets[position(bk, sheet)].rows))

\* ExcelReader(fname, sheet, mode), `s` being what the choice of the sheet gave.
ExcelReader_on(s, e, mode) ==
    IF s.exc # "none" THEN Raise(s.exc, NoObject) ELSE ExcelReader_init(e, s.obj, mode)

\* with ExcelReader(fname, sheet, mode) as reader: [row for row in reader]
read_sheet(e, bk, sheet, mode) == load_from(ExcelReader_on(select(e, bk, sheet), e, mode))

\* sheets(fname): the names of the sheets, in their order.
sheets(bk) ==
    IF ~bk.exists THEN Raise("FileNotFoundError", NoObject)
    ELSE Ok(List([i \in 1..Len(bk.sheets) |-> StrV(bk.sheets[i].name)]), NoObject)

\* ExcelWriter(fname, sheet, fieldnames, mode): WRITE looks at no file;
\* APPEND reads the chosen sheet (`s` is what the choice gave) and replays it.
ExcelWriter_on(s, e, fieldnames, mode) ==
    IF mode = "WRITE" THEN ExcelWriter_init(e, NoFile, fieldnames, mode)
    ELSE IF s.exc # "none" THEN Raise(s.exc, [w |-> NoObject, file |-> NoFile])
    ELSE ExcelWriter_init(e, s.obj, fieldnames, mode)

\* create_excel: the new document gets one sheet, named sheet if sheet else
\* 'Sheet'; the index 0 is false.
create_excel(sheet) == IF sheet.by = "name" THEN sheet.name ELSE "Sheet"

\* The end of `with ExcelWriter(...) as writer`, `o` being what the body
\* gave: close() saves the document of the writer under the file's name.
sheet_saved(o, sheet) ==
    [exc |-> o.exc, val |-> None,
     obj |-> Book(<<Sheet(create_excel(sheet), ExcelWriter_close(o.obj).file.rows)>>)]

\* with ExcelWriter(fname, sheet, fieldnames, mode) as writer:
\*     writer.write_list(lst)
\* `wo` is what the construction gave; a construction that fails leaves
\* the workbook as it is.
sheet_session(wo, bk, sheet, lst) ==
    IF wo.exc # "none" THEN Raise(wo.exc, bk)
    ELSE sheet_saved(write_list(wo.obj, lst), sheet)

\* The workbooks a scenario starts with: none, or one or two sheets with a
\* header, under different names.
SheetNames == {"Sheet", "Data", "Other"}
SheetRows ==
    {<<<<StrV("a")>>>>,
     <<<<StrV("a")>>, <<IntV(1)>>>>,
     <<<<StrV("a"), StrV("b")>>, <<StrV("x"), IntV(1)>>>>}
InitSheets == {Sheet(n, r) : n \in SheetNames, r \in SheetRows}
InitBooks ==
    {NoBook} \cup {Book(<<sh>>) : sh \in InitSheets}
             \cup {Book(<<s1, s2>>) : s1 \in {sh \in InitSheets : sh.name # "Other"},
                                      s2 \in {sh \in InitSheets : sh.name = "Other"}}
             \cup {Book(<<s1, s2>>) : s1 \in {sh \in InitSheets : sh.name = "Other"},
                                      s2 \in {sh \in InitSheets : sh.name = "Data"}}

\* The sheets the scenarios ask for; a writer is asked for by the index 0,
\* the default, or by a name.
Selectors == {ByIndex(0), ByIndex(1), ByName("Sheet"), ByName("Data")}
WriterSelectors == {sel \in Selectors : sel.by = "name" \/ sel.index = 0}

\* done: op, sheet and mode (the arguments), opened (a writer was built),
\* exc and val (the outcome), before (the workbook before the call), saves
\* (the writer sessions so far).
Done(op, sheet, mode, opened, o, saves) ==
    [op |-> op, sheet |-> sheet, mode |-> mode, opened |-> opened,
     exc |-> o.exc, val |-> o.val, before |-> book, saves |-> saves]

\* The step of a writer session on the workbook, `wo` being what the
\* construction gave.
SheetWritten(wo, sheet, mode, lst) ==
    /\ done' = Done("writer", sheet, mode, wo.exc = "none",
                    sheet_session(wo, book, sheet, lst), done.saves + 1)
    /\ book' = sheet_session(wo, book, sheet, lst).obj

SheetWriter(sheet, fieldnames, mode, lst) ==
    /\ done.saves < MaxSaves
    /\ SheetWritten(ExcelWriter_on(select(ext, book, sheet), ext, fieldnames, mode),
                    sheet, mode, lst)
    /\ UNCHANGED <<ext, disk, writer, reader, pc, res, sess, log, fs, out, stream>>

\* A reader session on a sheet of the workbook.
ReadSheet(sheet, mode) ==
    /\ done' = Done("reader", sheet, mode, FALSE, read_sheet(ext, book, sheet, mode),
                    done.saves)
    /\ UNCHANGED <<ext, disk, writer, reader, pc, res, sess, log, fs, out, stream, book>>

\* sheets(fname)
SheetsOf ==
    /\ done' = Done("sheets", ByIndex(0), "none", FALSE, sheets(book), done.saves)
    /\ UNCHANGED <<ext, disk, writer, reader, pc, res, sess, log, fs, out, stream, book>>

InitWorkbook ==
    /\ ext \in {"xls", "xlsx"}
    /\ disk = NoFile
    /\ writer = NoObject
    /\ reader = NoObject
    /\ pc = "idle"
    /\ res = NoRes
    /\ sess = NoSess
    /\ log = NoLog
    /\ fs = NoFiles
    /\ out = NoOut
    /\ stream = NoStream
    /\ book \in InitBooks
    /\ done = NoDone

NextWorkbook ==
    \/ \E sel \in WriterSelectors, f \in FieldLists \cup {<<>>}, m \in Modes,
          lst \in RowLists \cup {<<>>} : SheetWriter(sel, f, m, lst)
    \/ \E sel \in Selectors, m \in ReadModes : ReadSheet(sel, m)
    \/ SheetsOf

Workbook == InitWorkbook /\ [][NextWorkbook]_vars

-----------------------------------------------------------------------------
\* What the properties speak of.

\* The data rows of the source a reader was opened on.
NData(r) == IF Len(r.sheet) = 0 THEN 0 ELSE Len(r.sheet) - 1

LastN(seq, n) == SubSeq(seq, Len(seq) - n + 1, Len(seq))

\* The row of the file that holds the logged row `e`.
Stored(e) == IF ext = "csv" THEN [i \in 1..Len(e.vals) |-> PyStr(e.vals[i])] ELSE e.vals

\* A step inside a reader's session is one read call; res'.op names it.
SingleRead ==
    /\ pc = "reading" /\ pc' = "reading"
    /\ res'.op \in {"read_row", "read", "read_list", "read_object"}

\* C1: once a reader has returned all the rows of its source, read_row (and
\* read, read_list, read_object, which call it) raises StopIteration, and
\* once it has raised StopIteration every later call raises it again and
\* returns no row.
C1_EndOfDataPersists ==
    [][(SingleRead /\ (sess.eof \/ sess.returned = NData(reader)))
          => (res'.exc = "StopIteration" /\ sess'.eof /\ sess'.returned = sess.returned)]_vars

C1_Witness ==
    /\ pc = "reading" /\ sess.eof /\ sess.returned = NData(reader) /\ sess.returned >= 1
    /\ res.op = "read" /\ res.exc = "StopIteration"

\* C2: in a `with` session the target is the object itself and close() has
\* not been called; once the session is left, on any path, close() has been
\* called exactly once, an exception that left the body has reached the
\* caller, and the file of a writer ends with the rows written in the session.
C2_ScopedSession ==
    /\ pc \in {"writing", "reading", "failed"} => sess.bound /\ sess.closes = 0
    /\ pc = "idle" /\ sess.how # "none" =>
        /\ sess.closes = 1
        /\ res.op = "with"
        /\ res.exc = (IF sess.how = "raise" THEN sess.exc ELSE "none")
        /\ sess.how = "raise" => sess.exc # "none"
        /\ sess.kind = "w" =>
            /\ disk.exists
            /\ Len(disk.rows) >= sess.wrote
            /\ Len(log.rows) >= sess.wrote
            /\ LastN(disk.rows, sess.wrote)
                 = [i \in 1..sess.wrote |-> Stored(LastN(log.rows, sess.wrote)[i])]

C2_Witness ==
    /\ pc = "idle" /\ sess.kind = "w" /\ sess.how = "raise" /\ sess.closes = 1
    /\ sess.wrote >= 1 /\ res.exc = "IndexError"

\* The log holds full rows, all written under the field names of the one
\* header of the file.
Uniform ==
    /\ log.headers = 1 /\ log.same
    /\ \A i \in 1..Len(log.rows) :
        /\ log.rows[i].fn = log.hdr
        /\ \A j \in 1..Len(log.rows[i].vals) : log.rows[i].vals[j] # None

\* The list `l` read back holds the written values `vals`: as text from a CSV
\* file, a number as a number and a text as a text from a spreadsheet.
SameList(l, vals) ==
    /\ l.shape = "list"
    /\ Len(l.items) = Len(vals)
    /\ \A i \in 1..Len(vals) :
        IF ext = "csv" THEN l.items[i] = StrV(vals[i].text)
        ELSE /\ IsNumber(l.items[i]) = IsNumber(vals[i])
             /\ PyEq(l.items[i], vals[i])

FileFields ==
    IF ext = "csv" THEN disk.rows[1]
    ELSE [i \in 1..Len(disk.rows[1]) |->
            (IF ext = "xls" THEN XlsValue(disk.rows[1][i]) ELSE XlsxValue(disk.rows[1][i])).text]

FileRow(k) ==
    IF ext = "csv" THEN DictReader_row(disk.rows[1], disk.rows[k + 1])
    ELSE [i \in 1..Len(FileFields) |->
            <<FileFields[i],
              LET c == MaxCol(disk.rows[k + 1], Len(FileFields))[i]
              IN  IF ext = "xls" THEN XlsValue(c) ELSE XlsxValue(c)>>]

ShapeOf(mode) == CASE mode = "OBJECT" -> "object" [] mode = "DICT" -> "dict" [] OTHER -> "list"

\* The record `v`, in the shape of `mode`, holds the mapping `d`: unchanged
\* as a dict, its values in order as a list, one attribute per field as a
\* record value.
Holds(v, mode, d) ==
    /\ v.shape = ShapeOf(mode)
    /\ mode = "DICT" => v.items = d
    /\ mode = "LIST" => Len(v.items) = Len(d)
    /\ \A i \in 1..Len(d) :
        CASE mode = "DICT" -> Get(v.items, d[i][1]) = d[i][2]
          [] mode = "LIST" -> v.items[i] = d[i][2]
          [] OTHER -> /\ Has(v.items, ToIdentifier(d[i][1]))
                      /\ Get(v.items, ToIdentifier(d[i][1])) = d[i][2]

CellOf(file, k, i) ==
    LET row == file.rows[k + 1]
        c == IF i <= Len(row) THEN row[i] ELSE None
    IN  IF ext = "xls" THEN XlsValue(c) ELSE XlsxValue(c)

HeaderOf(file) ==
    [i \in 1..Len(file.rows[1]) |->
        (IF ext = "xls" THEN XlsValue(file.rows[1][i]) ELSE XlsxValue(file.rows[1][i])).text]

IndexOf(seq, x) == CHOOSE i \in 1..Len(seq) : seq[i] = x

Empty(v) == v = None \/ v = StrV("")

\* A spreadsheet writer opened in APPEND mode has just been closed;
\* sess.before is the file as it was when the writer was opened.
AfterAppend ==
    /\ pc = "idle" /\ ext # "csv"
    /\ sess.kind = "w" /\ sess.mode = "APPEND" /\ sess.how # "none"

\* The last sess.wrote rows of the file are the rows of the session.
NewRowsLast ==
    LastN(disk.rows, sess.wrote) = [i \in 1..sess.wrote |-> LastN(log.rows, sess.wrote)[i].vals]

\* C5 as the spec states it: after a spreadsheet APPEND session on a file of
\* K data rows that wrote M rows, the file holds one header, then the K rows
\* as they were (every field of theirs with its value), then the M new rows.
C5_AppendKeepsEveryRow ==
    AfterAppend =>
        /\ Len(disk.rows) = Len(sess.before.rows) + sess.wrote
        /\ NewRowsLast
        /\ \A k \in 1..(Len(sess.before.rows) - 1) :
            \A i \in 1..Len(HeaderOf(sess.before)) :
                /\ HeaderOf(sess.before)[i] \in Range(HeaderOf(disk))
                /\ PyEq(CellOf(disk, k, IndexOf(HeaderOf(disk), HeaderOf(sess.before)[i])),
                        CellOf(sess.before, k, i))

\* C5: after a spreadsheet APPEND session on a file of K data rows that wrote
\* M rows, the file holds one header row, then K rows, then the M new rows in
\* write order.  The header is the field-name list the writer was given, or
\* the file's own when it was given none; the k-th of the K rows holds, for
\* each field of that header, the value the k-th original row had for it
\* (nothing for a field the original header lacked), so a field of the file
\* that the given list lacks is lost, and with no list given every row is
\* kept whole.
C5_AppendReplays ==
    AfterAppend =>
        /\ Len(disk.rows) = Len(sess.before.rows) + sess.wrote
        /\ NewRowsLast
        /\ HeaderOf(disk) = (IF sess.given = <<>> THEN HeaderOf(sess.before) ELSE sess.given)
        /\ \A k \in 1..(Len(sess.before.rows) - 1) :
            \A i \in 1..Len(HeaderOf(disk)) :
                IF HeaderOf(disk)[i] \in Range(HeaderOf(sess.before))
                THEN PyEq(CellOf(disk, k, i),
                          CellOf(sess.before, k, IndexOf(HeaderOf(sess.before), HeaderOf(disk)[i])))
                ELSE Empty(CellOf(disk, k, i))

C5_Witness ==
    /\ AfterAppend /\ sess.given = <<>> /\ sess.how = "normal"
    /\ Len(sess.before.rows) = 2 /\ sess.wrote = 1
    /\ Len(HeaderOf(sess.before)) = MaxCols

\* The records of the CSV file that hold the rows of the log.
StoredRows == [i \in 1..Len(log.rows) |-> Stored(log.rows[i])]

\* C6 as the spec states it: after any sequence of WRITE and APPEND sessions
\* a CSV file holds exactly one header row followed by the written rows.
C6_AlwaysOneHeader ==
    ext = "csv" /\ disk.exists /\ writer = NoObject =>
        /\ log.headers = 1
        /\ disk.rows = <<log.hdr>> \o StoredRows

\* C6: a CSV writer writes its field names as the header at construction in
\* WRITE mode only, and an APPEND writer adds its rows after the records the
\* file holds; so a file made by a WRITE session holds the header of that
\* session followed by the rows written since, in write order, and a file
\* made by an APPEND session on a missing file holds the rows and no header.
C6_HeaderOnlyInWrite ==
    ext = "csv" /\ disk.exists /\ writer = NoObject =>
        /\ log.headers \in {0, 1}
        /\ log.headers = 1 => disk.rows = <<log.hdr>> \o StoredRows
        /\ log.headers = 0 => disk.rows = StoredRows

C6_Witness ==
    /\ ext = "csv" /\ pc = "idle" /\ disk.exists
    /\ sess.kind = "w" /\ sess.mode = "APPEND" /\ sess.how = "normal" /\ sess.wrote = 1
    /\ log.headers = 1 /\ Len(log.rows) = 2

IsList(v) == TypeOf(v) = "list"

\* C7: read_lists() returns a sequence of value lists, one per row that was
\* left, and leaves the reader at the end of the data.
C7_ReadListsDrains ==
    pc = "reading" /\ res.op = "read_lists" =>
        /\ res.exc = "none"
        /\ IsList(res.val)
        /\ \A k \in 1..Len(res.val.items) : IsList(res.val.items[k])
        /\ sess.returned = NData(reader)

\* C8: read_rows() returns a sequence of mappings, one per row that was
\* left, in every mode, and leaves the reader at the end of the data.
C8_ReadRowsDrains ==
    pc = "reading" /\ res.op = "read_rows" =>
        /\ res.exc = "none"
        /\ IsList(res.val)
        /\ \A k \in 1..Len(res.val.items) :
            TypeOf(res.val.items[k]) = "dict"
        /\ sess.returned = NData(reader)

\* C9: read_objects() and a loop over the reader give the rows that were
\* left, each once and in file order, and leave the reader at the end of the
\* data; sess.returned counts the rows the reader has handed out, so a drain
\* of a reader that had handed out all of them gives none.
C9_SinglePass ==
    pc = "reading" /\ res.op \in {"read_objects", "for"} =>
        /\ res.exc = "none"
        /\ sess.eof
        /\ sess.returned = NData(reader)
        /\ Len(res.val.items) <= NData(reader)
        /\ \A j \in 1..Len(res.val.items) :
            Holds(res.val.items[j], reader.mode,
                  FileRow(NData(reader) - Len(res.val.items) + j))

\* A drain that came after another read of the same reader and gave no rows.
C9_Witness ==
    /\ pc = "reading" /\ res.op = "read_objects" /\ res.exc = "none"
    /\ ~sess.first /\ res.val.items = <<>> /\ NData(reader) = MaxRows

\* C10 as the spec states it: read() at the end of the data returns a marker
\* and raises nothing.
C10_ReadReturnsMarker ==
    pc = "reading" /\ res.op = "read" => res.exc = "none"

\* C10: read() gives what read_row() gives: a row while rows are left, and
\* at the end of the data the StopIteration that read_row() raises, never a
\* value that stands for the end; a loop over the reader ends at that
\* exception and raises nothing.
C10_ReadRaisesAtEnd ==
    pc = "reading" =>
        /\ res.op = "read" =>
            IF res.exc = "none" THEN TypeOf(res.val) = ShapeOf(reader.mode)
            ELSE res.exc = "StopIteration" /\ sess.eof /\ sess.returned = NData(reader)
        /\ res.op = "for" => res.exc = "none" /\ sess.eof /\ sess.returned = NData(reader)

C10_Witness ==
    /\ pc = "reading" /\ res.op = "read" /\ res.exc = "StopIteration"
    /\ sess.returned = MaxRows

-----------------------------------------------------------------------------
\* write(value), import_reader, append without field names.

\* The rows a writer's side holds: the stream of a CSV writer, the document
\* of a spreadsheet writer.
Held(ws) == IF ws.w.ext = "csv" THEN ws.file.rows ELSE ws.w.sheet

\* C11: for a writer with a fixed field-name list, write(value) takes a list,
\* a mapping and a record value of the same logical row to the same single
\* write_row call: each of the three calls returns, each adds exactly one
\* row, and the three leave the same rows behind.
C11_WriteShapesAgree ==
    pc = "writing" /\ writer.fieldnames # <<>> =>
        \A v \in [1..Len(writer.fieldnames) -> Val] :
            LET row == Zip(writer.fieldnames, v)
                l == writer_write(WS, List(v))
                d == writer_write(WS, Dict(row))
                o == writer_write(WS, Obj(row))
            IN  /\ l.exc = "none" /\ d.exc = "none" /\ o.exc = "none"
                /\ Len(Held(l.obj)) = Len(Held(WS)) + 1
                /\ Held(l.obj) = Held(d.obj)
                /\ Held(d.obj) = Held(o.obj)

\* A step inside a reader's session is an import of the reader.
ImportStep == pc = "reading" /\ pc' = "reading" /\ res'.op = "import_reader"

\* The cell that field i of the k-th data row of the source gives the
\* importing writer: the value the reader reads under the field's name; a
\* record value carries it under the name as an identifier, so a field whose
\* name is not one finds no value.
Imports(k, i) ==
    LET f == reader.fieldnames[i]
    IN  IF reader.mode = "OBJECT" /\ ToIdentifier(f) # f THEN None
        ELSE IF Has(FileRow(k), f) THEN Get(FileRow(k), f) ELSE None

C13_AppendNeedsFieldNames ==
    pc = "writing" /\ writer.mode = "APPEND" => writer.fieldnames # <<>>

\* C20: write_list of a list whose length is not the length of the writer's
\* field-name list, shorter or longer, raises an exception and writes no row.
C20_MismatchedListRejected ==
    pc = "writing" /\ ext # "csv" =>
        \A lst \in RowLists :
            Len(lst) # Len(writer.fieldnames) =>
                /\ write_list(WS, lst).exc # "none"
                /\ write_list(WS, lst).obj = WS

-----------------------------------------------------------------------------
\* The builder functions.

\* The dispatch table as the specification gives it: the name ends, in any
\* case of letters, in .csv, .csv.gz or .gz (CSV), or in .xls or .xlsx
\* (spreadsheet).
TableCsv(fname) ==
    \/ endswith(lower(fname), <<"csv">>)
    \/ endswith(lower(fname), <<"csv", "gz">>)
    \/ endswith(lower(fname), <<"gz">>)
TableExcel(fname) == endswith(lower(fname), <<"xls">>) \/ endswith(lower(fname), <<"xlsx">>)

\* C14: open_reader and open_writer choose the class from the extension
\* alone, whatever the case of its letters: .csv, .csv.gz and .gz give the
\* CSV class, .xls and .xlsx the spreadsheet class, and the two functions
\* choose alike for every name.
C14_ExtensionChoosesClass ==
    /\ out.op = "load" =>
        /\ TableCsv(out.fname) => out.cls = "CsvReader"
        /\ TableExcel(out.fname) => out.cls = "ExcelReader"
    /\ out.op = "write_sample" =>
        /\ TableCsv(out.fname) => out.cls = "CsvWriter"
        /\ TableExcel(out.fname) => out.cls = "ExcelWriter"
    /\ \A n \in FileNames :
        /\ open_reader_class(n) = "CsvReader" <=> open_writer_class(n) = "CsvWriter"
        /\ open_reader_class(n) = "ExcelReader" <=> open_writer_class(n) = "ExcelWriter"

\* C15: for a name whose extension is in no row of the dispatch table,
\* open_reader (in load) and open_writer (in a writer session, in convert)
\* raise ValueError and every file is as it was: none is created, none is
\* truncated.
C15_UnsupportedFailsFirst ==
    [][/\ out'.op \in {"load", "write_sample"}
          /\ ~TableCsv(out'.fname) /\ ~TableExcel(out'.fname)
          => out'.exc = "ValueError" /\ fs' = fs
       /\ out'.op = "convert" /\ out'.saves = out.saves + 1
          /\ ~TableCsv(out'.other) /\ ~TableExcel(out'.other)
          => out'.exc # "none" /\ fs' = fs]_vars

\* A writer was asked for under the name data.txt, a file that exists.
C15_Witness ==
    /\ out.op = "write_sample" /\ out.fname = <<"data", "txt">>
    /\ out.exc = "ValueError" /\ fs[out.fname] = Foreign

\* The rows load_dicts gives for a name.
Rows(fname) == load(fs, fname, "DICT").val.items

\* Every key of the row d1 is a key of d2, with an equal value.
Within(d1, d2) ==
    \A k \in 1..Len(d1.items) :
        /\ Has(d2.items, d1.items[k][1])
        /\ PyEq(d1.items[k][2], Get(d2.items, d1.items[k][1]))

ConvertStep == out'.op = "convert" /\ out'.saves = out.saves + 1

\* The field names a reader finds in a file.
Fields(files, fname) == open_reader(files, fname, "DICT").obj.fieldnames

\* Every value of the rows is a text.
AllText(rows) ==
    \A i \in 1..Len(rows) : \A k \in 1..Len(rows[i].items) : rows[i].items[k][2].type = "str"

\* C17: convert(src, dst) with two different names, of a source that can be
\* read into a destination the dispatcher knows, returns and leaves a
\* destination with the field names of the source in their order and as
\* many rows, for which equals(src, dst) is true when all values are text;
\* convert with the same name twice raises ValueError and leaves every file
\* as it was.
C17_ConvertCopies ==
    [][ConvertStep =>
        /\ out'.fname = out'.other => out'.exc = "ValueError" /\ fs' = fs
        /\ /\ out'.fname # out'.other
           /\ open_writer_class(out'.other) # "ValueError"
           /\ load(fs, out'.fname, "DICT").exc = "none"
           => /\ out'.exc = "none"
              /\ load(fs', out'.other, "DICT").exc = "none"
              /\ Fields(fs', out'.other) = Fields(fs, out'.fname)
              /\ Len(load(fs', out'.other, "DICT").val.items)
                    = Len(load(fs, out'.fname, "DICT").val.items)
              /\ AllText(load(fs, out'.fname, "DICT").val.items)
                    => equals(fs', out'.fname, out'.other).val]_vars

\* The cells of a header row with the empty ones at its end taken off.
RECURSIVE Trimmed(_)
Trimmed(cells) ==
    IF cells = <<>> \/ ~Empty(cells[Len(cells)]) THEN cells
    ELSE Trimmed(SubSeq(cells, 1, Len(cells) - 1))

\* C18: a spreadsheet reader of either engine is built without an error on
\* a file with a header, its field names are the cells of row 0 without the
\* empty cells at the end, and every row it yields has exactly those fields.
C18_HeaderTrimmed ==
    out.op = "load" /\ out.other = "DICT" /\ out.cls = "ExcelReader" /\ fs[out.fname].exists =>
        /\ out.exc = "none"
        /\ \A i \in 1..Len(out.val.items) :
            Keys(out.val.items[i].items)
                = [j \in 1..Len(Trimmed(fs[out.fname].rows[1])) |->
                        fs[out.fname].rows[1][j].text]

\* The names of a sequence of keys as attribute names.
Identifiers(keys) == [i \in 1..Len(keys) |-> ToIdentifier(keys[i])]

-----------------------------------------------------------------------------
\* Streams, rows of a sheet, field names, sheets of a workbook.

\* A step that ends a session: __exit__ has called close().
Closes == pc # "idle" /\ pc' = "idle"

\* A step in which the stream of the file is opened, by a reader or writer
\* built from the path or by the caller who then hands it to one.
Opens == pc = "idle" /\ ~stream.open /\ stream'.open

\* C21: a reader or writer can be built from a path or from a stream the
\* caller has opened; built from a path it opens the stream itself, holds it
\* during the session and close() closes it; built from a caller's stream,
\* close() leaves the stream open; and close() of a reader, of either
\* format and either binding, leaves the file as it was.
C21_StreamOwnership ==
    [][/\ Opens => pc' \in {"writing", "reading"} /\ res'.exc = "none"
       /\ pc' # "idle" /\ ext = "csv" => stream'.open
       /\ Closes =>
            /\ stream.owner = "object" => ~stream'.open
            /\ stream.owner = "caller" => stream'.open /\ stream' = stream
            /\ reader # NoObject => disk' = disk]_vars

\* The mappings given to write_row: over a prefix of the field names (a
\* writer of fewer fields finds a key it does not know, one of more fields
\* misses a key), and the empty mapping.
Mappings == RowDicts \cup {<<>>}

\* What write_row(**row) of a spreadsheet writer is to leave: no exception,
\* the counter one further, the rows written before as they were, and one
\* new row at the old counter with, in column i, the value of field i or an
\* empty cell.
OneRowMore(row) ==
    /\ res'.exc = "none"
    /\ writer'.num_row = writer.num_row + 1
    /\ writer'.fieldnames = writer.fieldnames
    /\ Len(writer'.sheet) = Len(writer.sheet) + 1
    /\ \A k \in 1..Len(writer.sheet) : writer'.sheet[k] = writer.sheet[k]
    /\ Len(writer'.sheet[writer.num_row + 1]) = Len(writer.fieldnames)
    /\ \A i \in 1..Len(writer.fieldnames) :
        writer'.sheet[writer.num_row + 1][i]
            = (IF Has(row, writer.fieldnames[i]) THEN Get(row, writer.fieldnames[i])
               ELSE None)

\* C22: every write_row call on a spreadsheet writer writes exactly one
\* sheet row, at the row counter: field i of the writer's field-name list
\* goes to column i, a field the mapping lacks leaves its cell empty, a key
\* that is no field name is dropped without an error, and the counter
\* advances by one, also for the empty mapping.
C22_WriteRowOneSheetRow ==
    [][\A row \in Mappings : ext # "csv" /\ WriteRow(row) => OneRowMore(row)]_vars

\* The empty mapping was written as the first data row of a sheet of
\* MaxCols fields: the row is there, with every cell empty.
C22_Witness ==
    /\ pc = "writing" /\ ext = "xlsx" /\ res.op = "write_row" /\ res.exc = "none"
    /\ Len(writer.fieldnames) = MaxCols
    /\ writer.num_row = 2 /\ Len(writer.sheet) = 2
    /\ \A i \in 1..MaxCols : writer.sheet[2][i] = None

\* A spreadsheet writer is at work (an exception may be leaving the body).
SheetSession == pc \in {"writing", "failed"} /\ writer # NoObject /\ ext # "csv"

\* The data rows an append found in the file and wrote again.
Replayed == IF sess.mode = "APPEND" THEN Len(sess.before.rows) - 1 ELSE 0

\* What the replay puts in column i of row k: what the reader read in the
\* old file under the field's name, nothing for a field the file lacked.
ReplayedCell(k, i) ==
    IF writer.fieldnames[i] \in Range(HeaderOf(sess.before))
    THEN CellOf(sess.before, k, IndexOf(HeaderOf(sess.before), writer.fieldnames[i]))
    ELSE None

\* The sheet of the writer: the header in row 0, then the replayed rows,
\* then the rows of the session, each at its own index, none beyond.
RowsInPlace ==
    SheetSession =>
        /\ writer.num_row >= 1
        /\ Len(writer.sheet) = writer.num_row
        /\ writer.sheet[1] = [i \in 1..Len(writer.fieldnames) |-> StrV(writer.fieldnames[i])]
        /\ ExcelWriter_len(writer) >= 0
        /\ ExcelWriter_len(writer) = Replayed + sess.wrote
        /\ \A k \in 1..Replayed : \A i \in 1..Len(writer.fieldnames) :
                writer.sheet[k + 1][i] = ReplayedCell(k, i)
        /\ \A k \in 1..sess.wrote :
                writer.sheet[Replayed + k + 1] = LastN(log.rows, sess.wrote)[k].vals

\* len(reader) of a spreadsheet reader against the rows it has yielded.
LenIsYield ==
    pc \in {"reading", "failed"} /\ reader # NoObject /\ ext # "csv" =>
        /\ ExcelReader_len(reader) >= 0
        /\ sess.returned <= ExcelReader_len(reader)
        /\ sess.eof => sess.returned = ExcelReader_len(reader)
        /\ res.op \in {"for", "read_objects"} /\ res.exc = "none" /\ sess.first
             => Len(res.val.items) = ExcelReader_len(reader)

\* C23: a spreadsheet writer has its header in row 0 from its construction
\* on, and the k-th data row written after it, the rows replayed by an
\* append included, in row k; a row once written is not written again, the
\* row counter never goes down, len(writer) is the number of data rows
\* written so far and is never negative; len(reader) of a spreadsheet
\* reader is the number of rows it yields before the end of the data.
C23_RowsLandInOrder ==
    [][/\ RowsInPlace'
       /\ LenIsYield'
       /\ SheetSession /\ SheetSession' =>
            /\ writer'.num_row >= writer.num_row
            /\ \A k \in 1..Len(writer.sheet) : writer'.sheet[k] = writer.sheet[k]]_vars

\* An append that found one data row has written one more.
C23_Witness ==
    /\ pc = "writing" /\ ext = "xls" /\ sess.mode = "APPEND"
    /\ Replayed = 1 /\ sess.wrote = 1
    /\ ExcelWriter_len(writer) = 2 /\ Len(writer.sheet) = 3

\* A writer is at work (an exception may be leaving the body).
WriterSession == pc \in {"writing", "failed"} /\ writer # NoObject

\* The rows of the session were written under the field names the writer
\* has now, and each row it holds has one place per field name.
LaidOut ==
    WriterSession =>
        /\ \A k \in 1..sess.wrote :
            /\ LastN(log.rows, sess.wrote)[k].fn = writer.fieldnames
            /\ Len(LastN(Held(WS), sess.wrote)[k]) = Len(writer.fieldnames)
        /\ ext # "csv" =>
            \A k \in 1..Len(writer.sheet) : Len(writer.sheet[k]) = Len(writer.fieldnames)

\* C24: the field-name list of a writer is fixed at its construction (the
\* list it was given, or the one an append found in the file) and no call
\* of the session changes it: not write, write_row, write_dict, write_list,
\* write_rows, not the replay of an append or an import_reader, not close;
\* and every row of the session is laid out with that list.
C24_FieldNamesFixed ==
    [][/\ writer # NoObject /\ writer' # NoObject => writer'.fieldnames = writer.fieldnames
       /\ pc = "idle" /\ pc' = "writing" =>
            writer'.fieldnames = (IF sess'.given # <<>> THEN sess'.given
                                  ELSE IF ext = "csv" THEN <<>> ELSE HeaderOf(disk))
       /\ ImportStep => res'.val.fieldnames = reader.fieldnames
       /\ Closes /\ writer # NoObject => writer_close(WS).w.fieldnames = writer.fieldnames
       /\ LaidOut']_vars

\* An append that took its field names from the file has replayed a row
\* and written another through write().
C24_Witness ==
    /\ pc = "writing" /\ ext = "xlsx" /\ sess.mode = "APPEND" /\ sess.given = <<>>
    /\ Replayed = 1 /\ sess.wrote = 1 /\ res.op = "write" /\ res.exc = "none"
    /\ writer.fieldnames = HeaderOf(sess.before) /\ Len(writer.fieldnames) = MaxCols

\* C25: a writer opened in APPEND mode on one sheet of a workbook, and
\* closed, leaves the workbook with the sheets it had: every other sheet is
\* as it was, and the chosen sheet has the name and the place it had.
C25_OtherSheetsKept ==
    done.op = "writer" /\ done.mode = "APPEND" /\ done.opened =>
        /\ book.exists
        /\ Len(book.sheets) = Len(done.before.sheets)
        /\ \A i \in 1..Len(done.before.sheets) :
            /\ book.sheets[i].name = done.before.sheets[i].name
            /\ i # position(done.before, done.sheet) => book.sheets[i] = done.before.sheets[i]

====
